---- MODULE Spec2Model ----
(***************************************************************************)
(* Model of backend/agent.py of Govi: the environment validator, the      *)
(* process entry point, the LiveKit worker entrypoint, the multimodal      *)
(* agent runner and the two FastAPI handlers.  The LiveKit and OpenAI      *)
(* clients are external: each call to them either returns or raises, and   *)
(* the model takes both outcomes.                                          *)
(***************************************************************************)
EXTENDS Integers, Sequences, FiniteSets, TLC

VARIABLES
    environ,        \* os.environ restricted to the required variables
    mainPc,         \* position of the module: imported, __main__, run_app, exited
    exitCode,       \* code passed to sys.exit, -1 while the process lives
    mainLogged,     \* check_environment logged its error
    pc,             \* position of the current entrypoint invocation
    jobs,           \* number of entrypoint invocations so far
    participant,    \* local `participant` of entrypoint
    trace,          \* calls the current invocation has issued, with their outcome
    agentInLocals,  \* 'agent' in locals() of run_multimodal_agent
    exc,            \* exception being handled in the current invocation
    raised,         \* exception that left entrypoint
    healthResp,     \* last response of GET /health
    cdPc,           \* position of the GET /api/connection-details request
    cdResp,         \* last response of GET /api/connection-details
    cdNames,        \* participant_identity and room_name of the request
    mintCalls,      \* create_token calls issued by the request
    mintOk,         \* create_token calls of the request that returned a token
    supState,       \* Worker Supervisor: state
    supTask,        \* Worker Supervisor: identity of the task handle, 0 if none
    supLive,        \* Worker Supervisor: tasks created and not yet finished
    supError,       \* Worker Supervisor: captured failure text
    supNext,        \* Worker Supervisor: number of tasks created so far
    supResp         \* Worker Supervisor: last response to a start or status request

supVars == <<supState, supTask, supLive, supError, supNext, supResp>>
vars == <<environ, mainPc, exitCode, mainLogged, pc, jobs, participant, trace,
          agentInLocals, exc, raised, healthResp, cdPc, cdResp, cdNames,
          mintCalls, mintOk, supState, supTask, supLive, supError, supNext, supResp>>

\* ---------------------------------------------------------------- bounds
MaxJobs == 2
MaxStamp == 1
MaxNames == 1
MaxTasks == 3

\* ---------------------------------------------------------------- environment
required_vars == {"LIVEKIT_URL", "LIVEKIT_API_KEY", "LIVEKIT_API_SECRET", "OPENAI_API_KEY"}

EnvValues == {"absent", "empty", "set"}

\* os.getenv(var): None when absent, "" when empty, the value when set
getenv(var) == environ[var]

\* truth value of a string-or-None in Python: None and "" are falsy
Truthy(v) == v = "set"

\* the test `os.getenv(var) is None`, which lets an empty value pass
missing_absent_only == {var \in required_vars : getenv(var) = "absent"}

\* missing = [var for var in required_vars if not os.getenv(var)]
missing == {var \in required_vars : ~Truthy(getenv(var))}

\* check_environment(): logs and calls sys.exit(1) when something is missing
check_environment ==
    IF missing # {}
    THEN [exit |-> TRUE, code |-> 1, logged |-> TRUE]
    ELSE [exit |-> FALSE, code |-> -1, logged |-> FALSE]

\* ---------------------------------------------------------------- traces
Call(op, ok) == [op |-> op, ok |-> ok]

Count(tr, op) == Cardinality({i \in DOMAIN tr : tr[i].op = op})

Issued(tr, op) == \E i \in DOMAIN tr : tr[i].op = op

Succeeded(tr, op) == \E i \in DOMAIN tr : tr[i].op = op /\ tr[i].ok

\* every call of b in tr comes after a call of a that returned normally
Precedes(tr, a, b) ==
    \A j \in DOMAIN tr : tr[j].op = b =>
        \E i \in DOMAIN tr : i < j /\ tr[i].op = a /\ tr[i].ok

Participants == {"remote"}

\* the exception a failing call raises
ExcOf(op) ==
    CASE op = "connect:AUDIO_ONLY" -> "ConnectError"
      [] op = "wait_for_participant" -> "WaitError"
      [] op = "getenv:OPENAI_API_KEY" -> "ValueError"
      [] op = "RealtimeModel" -> "ModelError"
      [] op = "MultimodalAgent" -> "AgentError"
      [] op = "agent.start" -> "StartError"
      [] op = "model.sessions[0]" -> "IndexError"
      [] op = "conversation.item.create" -> "SeedError"
      [] op = "response.create" -> "ResponseError"
      [] op = "agent.stop" -> "StopError"
      [] OTHER -> "none"

\* ---------------------------------------------------------------- process entry
Serving == mainPc \in {"imported", "run_app"}

\* if __name__ == "__main__": check_environment(); ...; cli.run_app(worker_options)
main ==
    /\ mainPc = "__main__"
    /\ LET r == check_environment IN
       /\ mainLogged' = r.logged
       /\ IF r.exit
          THEN mainPc' = "exited" /\ exitCode' = r.code
          ELSE mainPc' = "run_app" /\ exitCode' = exitCode
    /\ UNCHANGED <<environ, pc, jobs, participant, trace, agentInLocals, exc, raised,
                   healthResp, cdPc, cdResp, cdNames, mintCalls, mintOk>>
    /\ UNCHANGED supVars

\* ---------------------------------------------------------------- entrypoint
jobFrame == <<environ, mainPc, exitCode, mainLogged, healthResp, cdPc, cdResp,
              cdNames, mintCalls, mintOk>>

\* the worker invokes entrypoint(ctx) for a job
entrypoint ==
    /\ Serving
    /\ pc \in {"idle", "returned", "raised"}
    /\ jobs < MaxJobs
    /\ jobs' = jobs + 1
    /\ pc' = "connect"
    /\ trace' = <<>>
    /\ participant' = "none"
    /\ agentInLocals' = FALSE
    /\ exc' = "none"
    /\ raised' = "none"
    /\ UNCHANGED jobFrame
    /\ UNCHANGED supVars

\* await ctx.connect(auto_subscribe=AutoSubscribe.AUDIO_ONLY)
entrypoint_connect ==
    /\ pc = "connect"
    /\ \E ok \in BOOLEAN :
        /\ trace' = Append(trace, Call("connect:AUDIO_ONLY", ok))
        /\ IF ok
           THEN pc' = "wait_for_participant" /\ exc' = exc
           ELSE pc' = "entrypoint_except" /\ exc' = ExcOf("connect:AUDIO_ONLY")
    /\ UNCHANGED <<jobs, participant, agentInLocals, raised>>
    /\ UNCHANGED jobFrame
    /\ UNCHANGED supVars

\* the hand-off without the wait for a participant
entrypoint_wait_skipped ==
    /\ pc = "wait_for_participant"
    /\ pc' = "run_multimodal_agent"
    /\ UNCHANGED <<jobs, participant, trace, agentInLocals, exc, raised>>
    /\ UNCHANGED jobFrame
    /\ UNCHANGED supVars

\* participant = await ctx.wait_for_participant()
entrypoint_wait_for_participant ==
    /\ pc = "wait_for_participant"
    /\ \E ok \in BOOLEAN, p \in Participants :
        /\ trace' = Append(trace, Call("wait_for_participant", ok))
        /\ IF ok
           THEN pc' = "run_multimodal_agent" /\ participant' = p /\ exc' = exc
           ELSE /\ pc' = "entrypoint_except"
                /\ participant' = participant
                /\ exc' = ExcOf("wait_for_participant")
    /\ UNCHANGED <<jobs, agentInLocals, raised>>
    /\ UNCHANGED jobFrame
    /\ UNCHANGED supVars

\* the except block without its raise: the failure is logged and dropped
entrypoint_except_swallowed ==
    /\ pc = "entrypoint_except"
    /\ trace' = Append(trace, Call("logger.error:Worker failed", TRUE))
    /\ pc' = "returned"
    /\ UNCHANGED <<jobs, participant, agentInLocals, exc, raised>>
    /\ UNCHANGED jobFrame
    /\ UNCHANGED supVars

\* except Exception as e: logger.error("Worker failed ..."); raise
entrypoint_except ==
    /\ pc = "entrypoint_except"
    /\ trace' = Append(trace, Call("logger.error:Worker failed", TRUE))
    /\ raised' = exc
    /\ pc' = "raised"
    /\ UNCHANGED <<jobs, participant, agentInLocals, exc>>
    /\ UNCHANGED jobFrame
    /\ UNCHANGED supVars

\* ---------------------------------------------------------------- run_multimodal_agent
runnerFrame == <<jobs, participant, raised>>

\* an external call inside the try block: it returns, or raises into the except block
runner_call(here, op, next) ==
    /\ pc = here
    /\ \E ok \in BOOLEAN :
        /\ trace' = Append(trace, Call(op, ok))
        /\ IF ok
           THEN pc' = next /\ exc' = exc
           ELSE pc' = "runner_except" /\ exc' = ExcOf(op)

\* run_multimodal_agent(ctx, participant): openai_key = os.getenv(...); if not openai_key: raise
run_multimodal_agent ==
    /\ pc = "run_multimodal_agent"
    /\ LET ok == Truthy(getenv("OPENAI_API_KEY")) IN
        /\ trace' = trace \o <<Call("run_multimodal_agent", TRUE),
                               Call("getenv:OPENAI_API_KEY", ok)>>
        /\ IF ok
           THEN pc' = "RealtimeModel" /\ exc' = exc
           ELSE pc' = "runner_except" /\ exc' = ExcOf("getenv:OPENAI_API_KEY")
    /\ UNCHANGED agentInLocals
    /\ UNCHANGED runnerFrame
    /\ UNCHANGED jobFrame
    /\ UNCHANGED supVars

\* model = openai.realtime.RealtimeModel(...)
run_multimodal_agent_RealtimeModel ==
    /\ runner_call("RealtimeModel", "RealtimeModel", "MultimodalAgent")
    /\ UNCHANGED agentInLocals
    /\ UNCHANGED runnerFrame
    /\ UNCHANGED jobFrame
    /\ UNCHANGED supVars

\* agent = MultimodalAgent(model=model): the name is bound only if the constructor returns
run_multimodal_agent_MultimodalAgent ==
    /\ runner_call("MultimodalAgent", "MultimodalAgent", "agent.start")
    /\ agentInLocals' = (pc' = "agent.start")
    /\ UNCHANGED runnerFrame
    /\ UNCHANGED jobFrame
    /\ UNCHANGED supVars

\* agent.start followed at once by response.create, the seed item left out
run_multimodal_agent_start_then_response ==
    /\ runner_call("agent.start", "agent.start", "response.create")
    /\ UNCHANGED agentInLocals
    /\ UNCHANGED runnerFrame
    /\ UNCHANGED jobFrame
    /\ UNCHANGED supVars

\* agent.start(ctx.room, participant)
run_multimodal_agent_start ==
    /\ runner_call("agent.start", "agent.start", "model.sessions[0]")
    /\ UNCHANGED agentInLocals
    /\ UNCHANGED runnerFrame
    /\ UNCHANGED jobFrame
    /\ UNCHANGED supVars

\* session = model.sessions[0]
run_multimodal_agent_sessions ==
    /\ runner_call("model.sessions[0]", "model.sessions[0]", "conversation.item.create")
    /\ UNCHANGED agentInLocals
    /\ UNCHANGED runnerFrame
    /\ UNCHANGED jobFrame
    /\ UNCHANGED supVars

\* the seed item created twice
run_multimodal_agent_item_create_twice ==
    /\ pc = "conversation.item.create"
    /\ trace' = trace \o <<Call("conversation.item.create", TRUE),
                           Call("conversation.item.create", TRUE)>>
    /\ pc' = "response.create"
    /\ UNCHANGED <<agentInLocals, exc>>
    /\ UNCHANGED runnerFrame
    /\ UNCHANGED jobFrame
    /\ UNCHANGED supVars

\* session.conversation.item.create(llm.ChatMessage(role="assistant", content=greeting))
run_multimodal_agent_item_create ==
    /\ runner_call("conversation.item.create", "conversation.item.create", "response.create")
    /\ UNCHANGED agentInLocals
    /\ UNCHANGED runnerFrame
    /\ UNCHANGED jobFrame
    /\ UNCHANGED supVars

\* session.response.create(); the runner returns and entrypoint returns after it
run_multimodal_agent_response_create ==
    /\ runner_call("response.create", "response.create", "returned")
    /\ UNCHANGED agentInLocals
    /\ UNCHANGED runnerFrame
    /\ UNCHANGED jobFrame
    /\ UNCHANGED supVars

\* the except block with the cleanup left out
run_multimodal_agent_except_no_cleanup ==
    /\ pc = "runner_except"
    /\ trace' = Append(trace, Call("logger.error:Error in run_multimodal_agent", TRUE))
    /\ pc' = "entrypoint_except"
    /\ UNCHANGED <<agentInLocals, exc>>
    /\ UNCHANGED runnerFrame
    /\ UNCHANGED jobFrame
    /\ UNCHANGED supVars

\* the except block with the cleanup error escaping in place of the original
run_multimodal_agent_except_cleanup_escapes ==
    /\ pc = "runner_except"
    /\ IF agentInLocals
       THEN \E stopped \in BOOLEAN :
            /\ trace' = trace \o <<Call("logger.error:Error in run_multimodal_agent", TRUE),
                                   Call("agent.stop", stopped)>>
            /\ exc' = IF stopped THEN exc ELSE ExcOf("agent.stop")
       ELSE /\ trace' = Append(trace, Call("logger.error:Error in run_multimodal_agent", TRUE))
            /\ exc' = exc
    /\ pc' = "entrypoint_except"
    /\ UNCHANGED agentInLocals
    /\ UNCHANGED runnerFrame
    /\ UNCHANGED jobFrame
    /\ UNCHANGED supVars

\* except Exception as e: logger.error(...); if 'agent' in locals(): try: agent.stop()
\* except Exception as cleanup_error: logger.error(...); raise
run_multimodal_agent_except ==
    /\ pc = "runner_except"
    /\ IF agentInLocals
       THEN \E stopped \in BOOLEAN :
            trace' = trace \o
                <<Call("logger.error:Error in run_multimodal_agent", TRUE),
                  Call("agent.stop", stopped)>>
                \o (IF stopped THEN <<>>
                    ELSE <<Call("logger.error:Error during cleanup", TRUE)>>)
       ELSE trace' = Append(trace, Call("logger.error:Error in run_multimodal_agent", TRUE))
    /\ pc' = "entrypoint_except"
    /\ UNCHANGED <<agentInLocals, exc>>
    /\ UNCHANGED runnerFrame
    /\ UNCHANGED jobFrame
    /\ UNCHANGED supVars

\* ---------------------------------------------------------------- HTTP facade
NoResponse == [status |-> 0]

Stamps == 1 .. MaxStamp

\* values hash(str(os.urandom(8))) can take
Names == 1 .. MaxNames

httpFrame == <<environ, mainPc, exitCode, mainLogged, pc, jobs, participant, trace,
               agentInLocals, exc, raised>>

\* return {"status": "healthy", "timestamp": datetime.now().isoformat()}
health_check_body(t) == [status |-> "healthy", timestamp |-> t]

\* @app.get("/health")
health_check ==
    /\ Serving
    /\ \E t \in Stamps : healthResp' = [status |-> 200, body |-> health_check_body(t)]
    /\ UNCHANGED <<cdPc, cdResp, cdNames, mintCalls, mintOk>>
    /\ UNCHANGED httpFrame
    /\ UNCHANGED supVars

\* str(e) of the exception the handler caught
Str(e) ==
    CASE e = "HTTPException" -> "500: Missing required environment variables"
      [] e = "RoomServiceClientError" -> "room client could not be created"
      [] e = "CreateTokenError" -> "token could not be created"
      [] OTHER -> ""

\* except Exception as e: logger.error(...); raise HTTPException(status_code=500, detail=str(e))
connection_details_except(e) == [status |-> 500, detail |-> Str(e)]

connection_vars == {"LIVEKIT_API_KEY", "LIVEKIT_API_SECRET", "LIVEKIT_URL"}

\* all([api_key, api_secret, livekit_url])
all_connection_vars == \A var \in connection_vars : Truthy(getenv(var))

\* @app.get("/api/connection-details"), up to the await of create_token
get_connection_details ==
    /\ Serving
    /\ cdPc = "idle"
    /\ mintOk' = 0
    /\ IF ~all_connection_vars
       THEN /\ cdResp' = connection_details_except("HTTPException")
            /\ cdPc' = "idle"
            /\ mintCalls' = 0
            /\ cdNames' = cdNames
       ELSE \E identity \in Names, room \in Names, created \in BOOLEAN :
            /\ cdNames' = [identity |-> identity, room |-> room]
            /\ IF created
               THEN cdPc' = "create_token" /\ mintCalls' = 1 /\ cdResp' = NoResponse
               ELSE /\ cdPc' = "idle"
                    /\ mintCalls' = 0
                    /\ cdResp' = connection_details_except("RoomServiceClientError")
    /\ UNCHANGED healthResp
    /\ UNCHANGED httpFrame
    /\ UNCHANGED supVars

connection_details_body(token) ==
    [serverUrl |-> "LIVEKIT_URL",
     roomName |-> cdNames.room,
     participantToken |-> token,
     participantName |-> cdNames.identity]

\* a handler that calls create_token again when it raised
get_connection_details_retry ==
    /\ cdPc = "create_token"
    /\ \E minted \in BOOLEAN :
        IF minted
        THEN /\ cdResp' = [status |-> 200,
                           body |-> connection_details_body(<<"token", cdNames.room,
                                                              cdNames.identity>>)]
             /\ mintOk' = mintOk + 1
             /\ mintCalls' = mintCalls
             /\ cdPc' = "idle"
        ELSE IF mintCalls < 2
             THEN /\ mintCalls' = mintCalls + 1
                  /\ UNCHANGED <<cdResp, mintOk, cdPc>>
             ELSE /\ cdResp' = connection_details_except("CreateTokenError")
                  /\ cdPc' = "idle"
                  /\ UNCHANGED <<mintCalls, mintOk>>
    /\ UNCHANGED <<healthResp, cdNames>>
    /\ UNCHANGED httpFrame
    /\ UNCHANGED supVars

\* token = await room_client.create_token(...) returns or raises; the handler answers
get_connection_details_create_token ==
    /\ cdPc = "create_token"
    /\ \E minted \in BOOLEAN :
        IF minted
        THEN /\ cdResp' = [status |-> 200,
                           body |-> connection_details_body(<<"token", cdNames.room,
                                                              cdNames.identity>>)]
             /\ mintOk' = mintOk + 1
        ELSE /\ cdResp' = connection_details_except("CreateTokenError")
             /\ mintOk' = mintOk
    /\ cdPc' = "idle"
    /\ UNCHANGED <<healthResp, cdNames, mintCalls>>
    /\ UNCHANGED httpFrame
    /\ UNCHANGED supVars

\* ---------------------------------------------------------------- specification
SupInit ==
    /\ supState = "Idle"
    /\ supTask = 0
    /\ supLive = {}
    /\ supError = ""
    /\ supNext = 0
    /\ supResp = "none"

Init ==
    /\ environ \in [required_vars -> EnvValues]
    /\ mainPc \in {"__main__", "imported"}
    /\ exitCode = -1
    /\ mainLogged = FALSE
    /\ pc = "idle"
    /\ jobs = 0
    /\ participant = "none"
    /\ trace = <<>>
    /\ agentInLocals = FALSE
    /\ exc = "none"
    /\ raised = "none"
    /\ healthResp = NoResponse
    /\ cdPc = "idle"
    /\ cdResp = NoResponse
    /\ cdNames = [identity |-> 0, room |-> 0]
    /\ mintCalls = 0
    /\ mintOk = 0
    /\ SupInit

Next ==
    \/ main
    \/ entrypoint
    \/ entrypoint_connect
    \/ entrypoint_wait_for_participant
    \/ entrypoint_except
    \/ run_multimodal_agent
    \/ run_multimodal_agent_RealtimeModel
    \/ run_multimodal_agent_MultimodalAgent
    \/ run_multimodal_agent_start
    \/ run_multimodal_agent_sessions
    \/ run_multimodal_agent_item_create
    \/ run_multimodal_agent_response_create
    \/ run_multimodal_agent_except
    \/ health_check
    \/ get_connection_details
    \/ get_connection_details_create_token

Spec == Init /\ [][Next]_vars

\* ---------------------------------------------------------------- Worker Supervisor
\* The supervisor of the design (sections 4.2 and 5) is not part of backend/agent.py,
\* whose __main__ block hands the worker to cli.run_app once.  It is modelled from
\* the design: one task handle, a start request that reads the handle, compares and
\* creates in a single step, and a task that runs the entrypoint above.
supFrame == <<environ, mainPc, exitCode, mainLogged, healthResp, cdPc, cdResp, cdNames,
              mintCalls, mintOk>>

\* a start request that creates a task whatever the state of the handle
start_agent_unguarded ==
    /\ supNext < MaxTasks
    /\ supNext' = supNext + 1
    /\ supTask' = supNext + 1
    /\ supLive' = supLive \cup {supNext + 1}
    /\ supState' = "Starting"
    /\ supError' = ""
    /\ supResp' = "started"
    /\ UNCHANGED <<pc, jobs, participant, trace, agentInLocals, exc, raised>>
    /\ UNCHANGED supFrame

\* POST /start-agent: a no-op while the task of the handle is live, else a new task
start_agent ==
    /\ IF supTask \in supLive
       THEN /\ supResp' = "already running"
            /\ UNCHANGED <<supState, supTask, supLive, supError, supNext>>
       ELSE /\ supNext < MaxTasks
            /\ supNext' = supNext + 1
            /\ supTask' = supNext + 1
            /\ supLive' = supLive \cup {supNext + 1}
            /\ supState' = "Starting"
            /\ supError' = ""
            /\ supResp' = "started"
    /\ UNCHANGED <<pc, jobs, participant, trace, agentInLocals, exc, raised>>
    /\ UNCHANGED supFrame

\* Starting -> Running: the task has begun executing
task_begin ==
    /\ supState = "Starting"
    /\ supState' = "Running"
    /\ pc' = "idle"
    /\ UNCHANGED <<supTask, supLive, supError, supNext, supResp>>
    /\ UNCHANGED <<jobs, participant, trace, agentInLocals, exc, raised>>
    /\ UNCHANGED supFrame

\* the running task invokes entrypoint(ctx) for a job
task_job ==
    /\ supState = "Running"
    /\ pc \in {"idle", "returned"}
    /\ jobs < MaxJobs
    /\ jobs' = jobs + 1
    /\ pc' = "connect"
    /\ trace' = <<>>
    /\ participant' = "none"
    /\ agentInLocals' = FALSE
    /\ exc' = "none"
    /\ raised' = "none"
    /\ UNCHANGED supVars
    /\ UNCHANGED supFrame

\* Running -> Failed: the entrypoint raised; the failure is captured
task_failed ==
    /\ supState = "Running"
    /\ pc = "raised"
    /\ supState' = "Failed"
    /\ supError' = raised
    /\ supLive' = supLive \ {supTask}
    /\ UNCHANGED <<supTask, supNext, supResp>>
    /\ UNCHANGED <<pc, jobs, participant, trace, agentInLocals, exc, raised>>
    /\ UNCHANGED supFrame

\* Running -> Cancelled: shutdown; the task unwinds at its suspension point
shutdown ==
    /\ supState = "Running"
    /\ supState' = "Cancelled"
    /\ supLive' = supLive \ {supTask}
    /\ pc' = "idle"
    /\ UNCHANGED <<supTask, supError, supNext, supResp>>
    /\ UNCHANGED <<jobs, participant, trace, agentInLocals, exc, raised>>
    /\ UNCHANGED supFrame

\* GET /agent/status: the state, and the captured error text if Failed
agent_status ==
    /\ supResp' = IF supState = "Failed" THEN supError ELSE supState
    /\ UNCHANGED <<supState, supTask, supLive, supError, supNext>>
    /\ UNCHANGED <<pc, jobs, participant, trace, agentInLocals, exc, raised>>
    /\ UNCHANGED supFrame

SupervisorInit == Init /\ mainPc = "imported"

SupervisorNext ==
    \/ start_agent
    \/ task_begin
    \/ task_job
    \/ task_failed
    \/ shutdown
    \/ agent_status
    \/ entrypoint_connect
    \/ entrypoint_wait_for_participant
    \/ entrypoint_except
    \/ run_multimodal_agent
    \/ run_multimodal_agent_RealtimeModel
    \/ run_multimodal_agent_MultimodalAgent
    \/ run_multimodal_agent_start
    \/ run_multimodal_agent_sessions
    \/ run_multimodal_agent_item_create
    \/ run_multimodal_agent_response_create
    \/ run_multimodal_agent_except

SupervisorSpec == SupervisorInit /\ [][SupervisorNext]_vars

\* ---------------------------------------------------------------- properties
\* the first call of the invocation that raised, "none" if none did
FirstFailed(tr) ==
    IF \E i \in DOMAIN tr : ~tr[i].ok
    THEN tr[CHOOSE i \in DOMAIN tr : ~tr[i].ok /\ \A j \in DOMAIN tr : ~tr[j].ok => i <= j].op
    ELSE "none"

\* the runner's except block has run and the failure is on its way to the caller
RunnerRaised ==
    /\ pc \in {"entrypoint_except", "raised"}
    /\ Issued(trace, "run_multimodal_agent")

\* C1: within one entrypoint invocation the first call is the audio-only connect, the
\* wait for a participant follows a connect that returned, and run_multimodal_agent is
\* called at most once, only after wait_for_participant returned a participant.
C1_EntrypointOrder ==
    /\ (trace # <<>> => trace[1].op = "connect:AUDIO_ONLY")
    /\ Count(trace, "connect:AUDIO_ONLY") <= 1
    /\ Count(trace, "wait_for_participant") <= 1
    /\ Count(trace, "run_multimodal_agent") <= 1
    /\ Precedes(trace, "connect:AUDIO_ONLY", "wait_for_participant")
    /\ Precedes(trace, "wait_for_participant", "run_multimodal_agent")
    /\ (Issued(trace, "run_multimodal_agent") => participant \in Participants)

C1_Witness ==
    /\ jobs = MaxJobs
    /\ pc = "RealtimeModel"
    /\ Succeeded(trace, "wait_for_participant")
    /\ Count(trace, "run_multimodal_agent") = 1

\* C2: an invocation that returns normally has issued exactly one seed item create,
\* which returned, and no invocation issues more than one.
C2_OneSeedMessage ==
    /\ Count(trace, "conversation.item.create") <= 1
    /\ (pc = "returned" =>
            /\ Count(trace, "conversation.item.create") = 1
            /\ Succeeded(trace, "conversation.item.create"))

C2_Witness ==
    /\ pc = "returned"
    /\ Count(trace, "conversation.item.create") = 1

RunnerFailures ==
    {"RealtimeModel", "MultimodalAgent", "agent.start", "model.sessions[0]",
     "conversation.item.create", "response.create"}

AfterAgentBound ==
    {"agent.start", "model.sessions[0]", "conversation.item.create", "response.create"}

\* C3 as stated: whenever model construction, agent.start or seeding fails, stop() has
\* been attempted by the time the failure reaches the caller, and the failure is raised.
C3_CleanupOnEveryFailure ==
    /\ (RunnerRaised /\ FirstFailed(trace) \in RunnerFailures
            => Issued(trace, "agent.stop"))
    /\ (FirstFailed(trace) \in RunnerFailures => pc # "returned")

\* C3 amended: when agent.start or seeding fails, stop() has been attempted by the time
\* the failure reaches the caller; when the construction of the model or of the agent
\* fails no cleanup call is made; in every case the failure is raised to the caller.
C3_CleanupWhenAgentBound ==
    /\ (RunnerRaised /\ FirstFailed(trace) \in AfterAgentBound
            => Issued(trace, "agent.stop"))
    /\ (RunnerRaised /\ FirstFailed(trace) \in {"RealtimeModel", "MultimodalAgent"}
            => ~Issued(trace, "agent.stop"))
    /\ (FirstFailed(trace) \in RunnerFailures =>
            /\ pc # "returned"
            /\ (pc = "raised" => raised # "none"))

C3_Witness ==
    /\ pc = "raised"
    /\ FirstFailed(trace) = "conversation.item.create"
    /\ Issued(trace, "agent.stop")

\* C4: at most one task is live at any time, and a start request made while the state is
\* Running changes neither the task handle nor the set of live tasks nor the state.
C4_OneLiveTask ==
    /\ [](Cardinality(supLive) <= 1)
    /\ [][(supState = "Running" /\ start_agent) =>
            (supTask' = supTask /\ supLive' = supLive /\ supState' = supState)]_vars

C4_Witness ==
    /\ supState = "Running"
    /\ supResp = "already running"
    /\ supLive = {supTask}
    /\ supNext > 1

\* C5: when connect or wait_for_participant fails, run_multimodal_agent is not called,
\* the invocation ends by raising that failure after logging it, and the process goes
\* on serving: both HTTP handlers can still answer.
C5_EntrypointFailurePropagates ==
    FirstFailed(trace) \in {"connect:AUDIO_ONLY", "wait_for_participant"} =>
        /\ ~Issued(trace, "run_multimodal_agent")
        /\ pc \in {"entrypoint_except", "raised"}
        /\ (pc = "raised" =>
                /\ raised = ExcOf(FirstFailed(trace))
                /\ trace[Len(trace)].op = "logger.error:Worker failed"
                /\ Serving
                /\ ENABLED health_check
                /\ (cdPc = "idle" => ENABLED get_connection_details))

C5_Witness ==
    /\ pc = "raised"
    /\ raised = "WaitError"
    /\ ~Issued(trace, "run_multimodal_agent")
    /\ healthResp.status = 200

\* C6: the body of a /health response has an environment map with one boolean for each
\* of the four required names, true iff the variable is non-empty.
C6_HealthEnvironmentMap ==
    healthResp.status = 200 =>
        /\ "environment" \in DOMAIN healthResp.body
        /\ DOMAIN healthResp.body.environment =
               {"LIVEKIT_URL", "LIVEKIT_API_KEY", "LIVEKIT_API_SECRET", "OPENAI_API_KEY"}
        /\ \A var \in DOMAIN healthResp.body.environment :
               healthResp.body.environment[var] = (environ[var] = "set")

AnyRequiredUnset ==
    \E var \in {"LIVEKIT_URL", "LIVEKIT_API_KEY", "LIVEKIT_API_SECRET", "OPENAI_API_KEY"} :
        environ[var] # "set"

\* C7: run as a script, the process exits with code 1 iff one of the four required
\* variables is absent or empty, and then no worker is started; with all four set the
\* validator logs nothing, changes nothing, and cli.run_app is reached.
C7_FailFast ==
    /\ (mainPc = "exited" =>
            /\ AnyRequiredUnset
            /\ exitCode = 1
            /\ mainLogged
            /\ jobs = 0 /\ pc = "idle")
    /\ (mainPc = "run_app" =>
            /\ ~AnyRequiredUnset
            /\ exitCode = -1
            /\ ~mainLogged)
    /\ (exitCode # -1 <=> mainPc = "exited")

C7_Witness ==
    /\ mainPc = "exited"
    /\ exitCode = 1
    /\ environ["OPENAI_API_KEY"] = "empty"
    /\ \A var \in required_vars \ {"OPENAI_API_KEY"} : environ[var] = "set"

\* C8: a request is answered 200 with exactly the four fields after exactly one
\* create_token call, which returned, or 500 with a detail; no request issues more than
\* one create_token call; with one of the three LiveKit variables unset the answer is
\* 500 and create_token is not called.
C8_ConnectionDetails ==
    /\ mintCalls <= 1
    /\ cdResp.status \in {0, 200, 500}
    /\ (cdResp.status = 0 => (cdPc = "create_token" \/ mintCalls = 0))
    /\ (cdResp.status = 200 =>
            /\ DOMAIN cdResp.body =
                   {"serverUrl", "roomName", "participantToken", "participantName"}
            /\ mintCalls = 1
            /\ mintOk = 1)
    /\ (cdResp.status = 500 => "detail" \in DOMAIN cdResp /\ mintOk = 0)
    /\ ((\E var \in {"LIVEKIT_API_KEY", "LIVEKIT_API_SECRET", "LIVEKIT_URL"} :
            environ[var] # "set") =>
            /\ mintCalls = 0
            /\ cdPc = "idle"
            /\ cdResp.status \in {0, 500})

C8_Witness ==
    /\ cdResp.status = 500
    /\ mintCalls = 1
    /\ mintOk = 0
    /\ cdPc = "idle"

\* C9: once the runner has failed, stop() has been called iff the MultimodalAgent
\* constructor had returned; it has not been called when the key was unset or the model
\* constructor raised; and the exception that reaches the caller is the one of the first
\* failing call, also when stop() itself raised.
C9_CleanupIffAgentBound ==
    RunnerRaised =>
        /\ (Issued(trace, "agent.stop") <=> Succeeded(trace, "MultimodalAgent"))
        /\ (FirstFailed(trace) \in {"getenv:OPENAI_API_KEY", "RealtimeModel"}
                => ~Issued(trace, "agent.stop"))
        /\ FirstFailed(trace) # "agent.stop"
        /\ exc = ExcOf(FirstFailed(trace))
        /\ (pc = "raised" => raised = ExcOf(FirstFailed(trace)))

C9_Witness ==
    /\ pc = "raised"
    /\ raised = "StartError"
    /\ \E i \in DOMAIN trace : trace[i].op = "agent.stop" /\ ~trace[i].ok

ExternalActions ==
    {"RealtimeModel", "MultimodalAgent", "agent.start", "model.sessions[0]",
     "conversation.item.create", "response.create"}

\* C10: in one runner invocation each call is made at most once and only after the
\* previous one returned: key check, RealtimeModel, agent.start, item create,
\* response.create; with OPENAI_API_KEY unset none of the external calls is made.
C10_RunnerOrder ==
    /\ \A op \in ExternalActions \cup {"getenv:OPENAI_API_KEY"} : Count(trace, op) <= 1
    /\ Precedes(trace, "getenv:OPENAI_API_KEY", "RealtimeModel")
    /\ Precedes(trace, "RealtimeModel", "agent.start")
    /\ Precedes(trace, "agent.start", "conversation.item.create")
    /\ Precedes(trace, "conversation.item.create", "response.create")
    /\ (environ["OPENAI_API_KEY"] # "set" =>
            \A op \in ExternalActions \cup {"agent.stop"} : ~Issued(trace, op))

C10_Witness ==
    /\ pc = "returned"
    /\ Succeeded(trace, "response.create")
    /\ Succeeded(trace, "conversation.item.create")

====
